---- MODULE Spec2Model ----
(***************************************************************************)
(* The galaxy view of PDF_GalaxAI: the effect of GalaxyRenderer (mount,     *)
(* edge and node batch build, render loop, picking, fly-to, resize and the  *)
(* effect cleanup) as a state machine over the browser's single UI thread.  *)
(*                                                                          *)
(* Positions are fixed-point vectors (Unit steps per world unit); a float   *)
(* interpolation is the same expression rounded down to the grid.  Time is  *)
(* in milliseconds.  requestAnimationFrame is the queue rafq: BeginFrame    *)
(* takes the queued callbacks for one frame and RunAnimate / RunStep run    *)
(* them one by one in registration order; event handlers run only between   *)
(* frames.                                                                  *)
(***************************************************************************)
EXTENDS Integers, Sequences, FiniteSets, TLC

VARIABLES
    props,      \* the props of the last render: papers, edges, highlights, onSelect
    mountRef,   \* mountRef.current: "div" or "null"
    views,      \* one record per run of the effect (its closure), oldest first
    rafq,       \* animation-frame callbacks requested for the next frame
    running,    \* callbacks of the frame being delivered that have not run yet
    clock,      \* time of the last frame, ms
    nextId,     \* next requestAnimationFrame handle
    selectLog,  \* the pointer hits so far: the onSelect call and the fly-to it started
    wall,       \* the last reading of performance.now(), ms
    mouse,      \* the shared pointer vector (normalised device coordinates)
    size,       \* offsetWidth and offsetHeight of the container, px
    events,     \* how many renders, removals and pointer events there have been
    err,        \* the error raised by the last handler, "none" when it returned
    last,       \* the handler that ran last and what it was given
    fiber,      \* the react-three-fiber renderer: focusTarget, camera, CameraAnimator refs
    app         \* the state of App: papers, edges, chat, input, loading, requests in flight

vars == <<props, mountRef, views, rafq, running, clock, nextId, selectLog, wall, mouse, size,
          events, err, last, fiber, app>>

-----------------------------------------------------------------------------
(* Bounds of the model *)

Unit == 10
MaxClock == 1000
MaxEvents == 2
MaxCleanupCalls == 2
MaxEdges == 2
MaxRequests == 3

(* Program constants *)

durationMs == 550
CameraZ == 15
StandoffZ == 6

\* container sizes the window is taken through
Sizes == {<<800, 600>>, <<400, 600>>, <<1200, 900>>}

\* the frames over which the controls apply one drag
DragTurns == 2

\* CameraAnimator: duration, standoff and the initial camera distance of the Canvas
FiberDuration == 600
FiberOffsetZ == 18
FiberCameraZ == 60

FrameDeltas == {200}
EventLags == {0, 250}

-----------------------------------------------------------------------------
(* Data *)

Vec(x, y, z) == <<x * Unit, y * Unit, z * Unit>>

VAdd(a, b) == <<a[1] + b[1], a[2] + b[2], a[3] + b[3]>>

\* the value of a missing map entry (no position is the empty vector)
Undefined == <<>>

\* an edge without a type field
NoType == "none"

\* the cites of a chat message or of a query response that has no cites field
NoCites == <<"absent">>

\* a node: id, pos, color and size (in world units) of Paper
Paper(i, p, c, sz) == [id |-> i, pos |-> p, color |-> c, size |-> sz]

Edge(s, t, w, ty) == [source |-> s, target |-> t, weight |-> w, type |-> ty]

N1 == Paper("n1", Vec(0, 0, 0), "red", 2)
N2 == Paper("n2", Vec(5, 0, 0), "green", 1)
N3 == Paper("n3", Vec(0, 5, 0), "blue", 0)

NodeLists == {<<>>, <<N1, N2, N3>>, <<N2, N1>>}

EdgeUniverse ==
    { Edge("n1", "n2", 1, "intra"),
      Edge("n1", "n4", 0, NoType),
      Edge("n4", "n2", 3, "bridge"),
      Edge("n3", "n1", 6, "bridge"),
      Edge("n2", "n3", 0, NoType),
      Edge("n2", "n1", 5, "intra") }

EdgeLists == UNION { [1..n -> EdgeUniverse] : n \in 0..MaxEdges }

\* every snapshot the geometry build is checked on
AllSnapshots == [papers : NodeLists, edges : EdgeLists]

GpuRes == {"starGeo", "starMat", "edgeGeo", "edgeMat", "sphereGeo", "sphereMat", "mesh", "renderer"}

Ids(papers) == { papers[i].id : i \in 1..Len(papers) }

ToSet(s) == { s[i] : i \in 1..Len(s) }

-----------------------------------------------------------------------------
(* Edge geometry *)

\* idToPos.get(id): the position set last for id, undefined when there is none
IdToPosGet(papers, id) ==
    IF id \in Ids(papers)
    THEN papers[CHOOSE i \in 1..Len(papers) :
                   /\ papers[i].id = id
                   /\ \A j \in (i+1)..Len(papers) : papers[j].id # id].pos
    ELSE Undefined

\* the check with the target forgotten
EdgeSkippedSourceOnly(a, b) == a = Undefined

\* if (!a || !b) continue
EdgeSkipped(a, b) == a = Undefined \/ b = Undefined

\* the factor without the clamp
BrightnessUnclamped(w) == 35 + w * 12

\* min(1, 0.35 + weight * 0.12), in hundredths
Brightness(w) == IF 35 + w * 12 < 100 THEN 35 + w * 12 ELSE 100

BaseColor(ty) == IF ty = "bridge" THEN "#f472b6" ELSE "#60a5fa"

\* the edges the react-three-fiber renderer draws: papers.find for both ends
EdgeConnections(papers, edges) ==
    LET Find(id) == IF id \in Ids(papers)
                    THEN papers[CHOOSE i \in 1..Len(papers) :
                                  /\ papers[i].id = id
                                  /\ \A j \in 1..(i - 1) : papers[j].id # id]
                    ELSE Undefined
        Drawn(e) == Find(e.source) # Undefined /\ Find(e.target) # Undefined
        kept == SelectSeq(edges, Drawn)
    IN  [i \in 1..Len(kept) |-> [from |-> Find(kept[i].source), to |-> Find(kept[i].target)]]

\* the channels of new THREE.Color(base), in 1/255
Rgb(base) == IF base = "#f472b6" THEN <<244, 114, 182>> ELSE <<96, 165, 250>>

\* new THREE.Color(base).multiplyScalar(brightness), in 1/25500
Shade(base, brightness) == [i \in 1..3 |-> Rgb(base)[i] * brightness]

\* a pass that colours the second endpoint with the unscaled base colour
EdgeStepPlainTarget(acc, papers, e) ==
    LET a == IdToPosGet(papers, e.source)
        b == IdToPosGet(papers, e.target)
        c == Shade(BaseColor(e.type), Brightness(e.weight))
    IN  IF acc.err # "none" THEN acc
        ELSE IF EdgeSkipped(a, b) THEN acc
        ELSE IF a = Undefined \/ b = Undefined
             THEN [acc EXCEPT !.err = "TypeError"]
        ELSE [acc EXCEPT !.segs = Append(@,
                 [source |-> e.source, target |-> e.target, a |-> a, b |-> b,
                  ca |-> <<BaseColor(e.type), Brightness(e.weight)>>,
                  cb |-> <<BaseColor(e.type), 100>>]),
                         !.positions = @ \o a \o b,
                         !.colors = @ \o c \o Shade(BaseColor(e.type), 100)]

\* one pass of the edge loop: acc is [segs, positions, colors, err]; positions and
\* colors are edgePositions and edgeColors, segs the same data one record per edge
EdgeStep(acc, papers, e) ==
    LET a == IdToPosGet(papers, e.source)
        b == IdToPosGet(papers, e.target)
        c == Shade(BaseColor(e.type), Brightness(e.weight))
    IN  IF acc.err # "none" THEN acc
        ELSE IF EdgeSkipped(a, b) THEN acc
        ELSE IF a = Undefined \/ b = Undefined
             THEN [acc EXCEPT !.err = "TypeError"]  \* a[0] or b[0] of undefined
        ELSE [acc EXCEPT !.segs = Append(@,
                 [source |-> e.source, target |-> e.target, a |-> a, b |-> b,
                  ca |-> <<BaseColor(e.type), Brightness(e.weight)>>,
                  cb |-> <<BaseColor(e.type), Brightness(e.weight)>>]),
                         !.positions = @ \o a \o b,
                         !.colors = @ \o c \o c]

RECURSIVE EdgeLoop(_, _, _, _)
EdgeLoop(acc, papers, edges, i) ==
    IF i > Len(edges) THEN acc
    ELSE EdgeLoop(EdgeStep(acc, papers, edges[i]), papers, edges, i + 1)

BuildEdges(papers, edges) ==
    EdgeLoop([segs |-> <<>>, positions |-> <<>>, colors |-> <<>>, err |-> "none"],
             papers, edges, 1)

-----------------------------------------------------------------------------
(* The world the handlers act on: [views, rafq, running, nextId, selectLog, err], *)
(* with the readings they take: now is performance.now(), box the container size *)

NoAnim ==
    [call |-> 0, startCam |-> <<>>, endCam |-> <<>>, startTgt |-> <<>>, endTgt |-> <<>>,
     start |-> 0]

\* requestAnimationFrame(cb): the handle is nextId
Request(w, kind, g, anim) ==
    [w EXCEPT !.rafq = Append(@, [id |-> w.nextId, kind |-> kind, gen |-> g, anim |-> anim]),
              !.nextId = @ + 1]

DropId(q, id) == SelectSeq(q, LAMBDA c : c.id # id)

\* cancelAnimationFrame(id): the callback is dropped wherever it waits
Cancel(w, id) == [w EXCEPT !.rafq = DropId(@, id), !.running = DropId(@, id)]

Pending(w, kind, g) ==
    \E i \in 1..Len(w.rafq) : w.rafq[i].kind = kind /\ w.rafq[i].gen = g

PendingNow(w, kind, g) ==
    \/ Pending(w, kind, g)
    \/ \E i \in 1..Len(w.running) : w.running[i].kind = kind /\ w.running[i].gen = g

\* pi in hundredths of a radian
PiCenti == 314

\* Math.sin in thousandths, of an angle in hundredths of a radian (Bhaskara's
\* rational form of the sine)
SinMilli(x) ==
    LET r == x % (2 * PiCenti)
        h == IF r > PiCenti THEN r - PiCenti ELSE r
        m == (16 * h * (PiCenti - h) * 1000) \div (5 * PiCenti * PiCenti - 4 * h * (PiCenti - h))
    IN  IF r > PiCenti THEN 0 - m ELSE m

\* t * 5 + i * 0.2 with t = now / 1000, in hundredths of a radian
Phase(now, i) == now \div 2 + 20 * i

\* a pulse that does not ask whether the node is highlighted
ScaleEveryNode(isHi, now, i) == 1000 + (350 * SinMilli(Phase(now, i))) \div 1000

\* s = isHi ? 1 + 0.35 * Math.sin(t * 5 + i * 0.2) : 1, in thousandths
Scale(isHi, now, i) ==
    IF isHi THEN 1000 + (350 * SinMilli(Phase(now, i))) \div 1000 ELSE 1000

\* a colour that ignores the highlight set
InstanceColorOwn(p, hi) == p.color

\* new THREE.Color(isHi ? '#fbbf24' : p.color)
InstanceColor(p, hi) == IF p.id \in hi THEN "#fbbf24" ELSE p.color

\* a batch written back to front
InstanceOfReversed(v, i, now) ==
    LET p == v.papers[Len(v.papers) + 1 - i]
    IN  [id |-> p.id, pos |-> p.pos, pulse |-> p.id \in v.hi,
         color |-> InstanceColor(p, v.hi), scale |-> Scale(p.id \in v.hi, now, i - 1)]

\* the matrix and colour animate writes for slot i (the code's i is i - 1)
InstanceOf(v, i, now) ==
    LET p == v.papers[i]
    IN  [id |-> p.id, pos |-> p.pos, pulse |-> p.id \in v.hi,
         color |-> InstanceColor(p, v.hi), scale |-> Scale(p.id \in v.hi, now, i - 1)]

\* the eye turned a quarter about the vertical axis through the orbit target
Turn(eye, tgt) ==
    <<tgt[1] + (eye[3] - tgt[3]), eye[2], tgt[3] - (eye[1] - tgt[1])>>

\* controls.update(): applies what is left of a drag to the eye, damped
ControlsUpdate(v) ==
    IF v.spin > 0
    THEN [v EXCEPT !.eye = Turn(v.eye, v.tgt), !.spin = @ - 1, !.writers = @ \cup {"orbit"}]
    ELSE v

\* an animate that flags mesh.instanceColor without asking whether it exists
AnimateUnguarded(w, g) ==
    LET w1 == Request(w, "animate", g, NoAnim)
        v == ControlsUpdate(w1.views[g])
        v1 == [v EXCEPT !.raf = w.nextId,
                        !.inst = [i \in 1..Len(v.papers) |-> InstanceOf(v, i, w.now)],
                        !.drawn = [eye |-> v.eye, tgt |-> v.tgt, at |-> w.now,
                                   slots |-> Len(v.papers),
                                   live |-> \A r \in GpuRes : v.rel[r] = 0]]
    IN  IF Len(v.papers) = 0
        THEN [w1 EXCEPT !.views[g].raf = w.nextId, !.err = "TypeError"]
        ELSE [w1 EXCEPT !.views[g] = v1]

\* an animate that asks for the next frame at its start and again at its end
AnimateRequestsTwice(w, g) ==
    LET w1 == Request(Request(w, "animate", g, NoAnim), "animate", g, NoAnim)
        v == ControlsUpdate(w1.views[g])
        v1 == [v EXCEPT !.raf = w.nextId + 1,
                        !.inst = [i \in 1..Len(v.papers) |-> InstanceOf(v, i, w.now)],
                        !.drawn = [eye |-> v.eye, tgt |-> v.tgt, at |-> w.now,
                                   slots |-> Len(v.papers),
                                   live |-> \A r \in GpuRes : v.rel[r] = 0]]
    IN  [w1 EXCEPT !.views[g] = v1]

\* an animate that draws before it writes the instances: the draw reads the
\* slots as the frame before left them
AnimateDrawFirst(w, g) ==
    LET w1 == Request(w, "animate", g, NoAnim)
        v == ControlsUpdate(w1.views[g])
        v1 == [v EXCEPT !.raf = w.nextId,
                        !.inst = [i \in 1..Len(v.papers) |-> InstanceOf(v, i, w.now)],
                        !.drawn = [eye |-> v.eye, tgt |-> v.tgt, at |-> w.now,
                                   slots |-> Len(v.inst),
                                   live |-> \A r \in GpuRes : v.rel[r] = 0]]
    IN  [w1 EXCEPT !.views[g] = v1]

\* animate: request the next frame, update the controls, write every instance, draw;
\* drawn.slots is the number of instance slots written when renderer.render runs
Animate(w, g) ==
    LET w1 == Request(w, "animate", g, NoAnim)
        v == ControlsUpdate(w1.views[g])
        v1 == [v EXCEPT !.raf = w.nextId,
                        !.inst = [i \in 1..Len(v.papers) |-> InstanceOf(v, i, w.now)],
                        !.drawn = [eye |-> v.eye, tgt |-> v.tgt, at |-> w.now,
                                   slots |-> Len(v.papers),
                                   live |-> \A r \in GpuRes : v.rel[r] = 0]]
    IN  [w1 EXCEPT !.views[g] = v1]

RECURSIVE Gcd(_, _)
Gcd(a, b) == IF b = 0 THEN a ELSE Gcd(b, a % b)

\* offsetWidth / offsetHeight as a fraction in lowest terms; a division by zero
\* gives Infinity, <<1, 0>>, and 0 / 0 gives NaN, <<0, 0>>
Ratio(box) ==
    IF box = <<0, 0>> THEN <<0, 0>>
    ELSE <<box[1] \div Gcd(box[1], box[2]), box[2] \div Gcd(box[1], box[2])>>

\* a handler that reads the container without looking whether it is there
OnResizeNoGuard(w, g, ref) ==
    IF ref = "null" THEN [w EXCEPT !.err = "TypeError"]
    ELSE [w EXCEPT !.views[g].aspect = Ratio(w.box), !.views[g].surf = w.box]

\* a handler that updates the projection and leaves the surface as it was
OnResizeAspectOnly(w, g, ref) ==
    IF ref = "null" THEN w
    ELSE [w EXCEPT !.views[g].aspect = Ratio(w.box)]

\* onResize of view g; ref is mountRef.current
OnResize(w, g, ref) ==
    IF ref = "null" THEN w
    ELSE [w EXCEPT !.views[g].aspect = Ratio(w.box), !.views[g].surf = w.box]

\* the body of the effect, run with props p while the container is present
EffectRun(w, p) ==
    LET g == Len(w.views) + 1
        built == BuildEdges(p.papers, p.edges)
        v == [papers |-> p.papers, edges |-> p.edges, hi |-> ToSet(p.highlights),
              onSelect |-> p.onSelect,
              rel |-> [r \in GpuRes |-> 0],
              surface |-> "attached",
              listeners |-> IF built.err = "none" THEN {"mousedown", "resize"} ELSE {},
              raf |-> 0,
              eye |-> Vec(0, 0, CameraZ), tgt |-> Vec(0, 0, 0),
              edgeSegs |-> built.segs,
              edgePositions |-> built.positions,
              edgeColors |-> built.colors,
              spin |-> 0,         \* rotation the controls have still to apply
              writers |-> {},     \* who wrote the camera in the frame being delivered
              inst |-> <<>>,
              drawn |-> [eye |-> <<>>, tgt |-> <<>>, at |-> 0, slots |-> 0, live |-> TRUE],
              aspect |-> Ratio(w.box), \* camera.aspect
              surf |-> w.box,          \* the size given to renderer.setSize
              writer |-> 0,       \* the fly-to call whose tick wrote the camera last
              writtenAt |-> 0,    \* now - start of that tick
              cleanups |-> 0,
              releasedWhilePending |-> FALSE]
        w1 == [w EXCEPT !.views = Append(@, v), !.err = built.err]
    IN  IF built.err # "none" THEN w1 ELSE Animate(w1, g)

\* the cleanup without the cancelAnimationFrame
CleanupOpsNoCancel ==
    <<"removeResize", "removeMousedown",
      "edgeGeo", "edgeMat", "sphereGeo", "sphereMat", "mesh", "starGeo", "starMat",
      "renderer", "removeChild">>

\* the cleanup that leaves the mousedown listener on the canvas
CleanupOpsKeepMousedown ==
    <<"removeResize", "cancelRaf",
      "edgeGeo", "edgeMat", "sphereGeo", "sphereMat", "mesh", "starGeo", "starMat",
      "renderer", "removeChild">>

\* the cleanup that leaves the resize listener on the window
CleanupOpsKeepResize ==
    <<"removeMousedown", "cancelRaf",
      "edgeGeo", "edgeMat", "sphereGeo", "sphereMat", "mesh", "starGeo", "starMat",
      "renderer", "removeChild">>

\* the cleanup that forgets the star field
CleanupOpsNoStars ==
    <<"removeResize", "removeMousedown", "cancelRaf",
      "edgeGeo", "edgeMat", "sphereGeo", "sphereMat", "mesh",
      "renderer", "removeChild">>

\* the statements of the effect cleanup, in order
CleanupOps ==
    <<"removeResize", "removeMousedown", "cancelRaf",
      "edgeGeo", "edgeMat", "sphereGeo", "sphereMat", "mesh", "starGeo", "starMat",
      "renderer", "removeChild">>

\* a cleanup whose raf is one handle shared by every view: it cancels the animate
\* request made last, whichever view made it
CleanupOpSharedRaf(w, g, op, ref) ==
    LET v == w.views[g]
        latest == CHOOSE id \in { w.views[h].raf : h \in 1..Len(w.views) } :
                      \A h \in 1..Len(w.views) : w.views[h].raf <= id
    IN  IF w.err # "none" THEN w
        ELSE IF op = "removeResize" THEN [w EXCEPT !.views[g].listeners = @ \ {"resize"}]
        ELSE IF op = "removeMousedown" THEN [w EXCEPT !.views[g].listeners = @ \ {"mousedown"}]
        ELSE IF op = "cancelRaf" THEN Cancel(w, latest)
        ELSE IF op = "removeChild"
             THEN IF ref = "null" THEN w
                  ELSE IF v.surface = "attached"
                       THEN [w EXCEPT !.views[g].surface = "detached"]
                       ELSE [w EXCEPT !.err = "NotFoundError"]
        ELSE [w EXCEPT !.views[g].rel[op] = @ + 1,
                       !.views[g].releasedWhilePending = @ \/ PendingNow(w, "animate", g)]

\* one statement of the cleanup of view g; ref is mountRef.current
CleanupOp(w, g, op, ref) ==
    LET v == w.views[g]
    IN  IF w.err # "none" THEN w
        ELSE IF op = "removeResize" THEN [w EXCEPT !.views[g].listeners = @ \ {"resize"}]
        ELSE IF op = "removeMousedown" THEN [w EXCEPT !.views[g].listeners = @ \ {"mousedown"}]
        ELSE IF op = "cancelRaf" THEN Cancel(w, v.raf)
        ELSE IF op = "removeChild"
             THEN IF ref = "null" THEN w       \* mountRef.current?.
                  ELSE IF v.surface = "attached"
                       THEN [w EXCEPT !.views[g].surface = "detached"]
                       ELSE [w EXCEPT !.err = "NotFoundError"]  \* not a child of the node
        ELSE [w EXCEPT !.views[g].rel[op] = @ + 1,
                       !.views[g].releasedWhilePending = @ \/ PendingNow(w, "animate", g)]

RECURSIVE CleanupFrom(_, _, _, _)
CleanupFrom(w, g, ref, i) ==
    IF i > Len(CleanupOps) THEN w
    ELSE CleanupFrom(CleanupOp(w, g, CleanupOps[i], ref), g, ref, i + 1)

\* the function the effect returns
Cleanup(w, g, ref) ==
    CleanupFrom([w EXCEPT !.views[g].cleanups = @ + 1, !.err = "none"], g, ref, 1)

-----------------------------------------------------------------------------
(* Fly-to *)

KDen == durationMs * durationMs

\* k of flyTo.step for e = now - start, as a numerator over KDen:
\* t = min(1, e / durationMs); k = t < 0.5 ? 2 t^2 : 1 - (-2 t + 2)^2 / 2
EaseNum(e) ==
    IF e >= durationMs THEN KDen
    ELSE IF 2 * e < durationMs THEN 2 * e * e
    ELSE KDen - 2 * (durationMs - e) * (durationMs - e)

\* lerpVectors(a, b, k): a + (b - a) * k on each axis
Lerp(a, b, kn) == [i \in 1..3 |-> a[i] + ((b[i] - a[i]) * kn) \div KDen]

\* the steps of view g that wait for a frame
StepsOf(w, g) ==
    { c.anim.call : c \in { x \in ToSet(w.rafq) \cup ToSet(w.running) :
                            x.kind = "step" /\ x.gen = g } }

\* a flyTo that starts every animation from the home pose instead of the current one
NewAnimFromHome(w, g, target, perfNow) ==
    [call |-> Len(w.selectLog),
     startCam |-> Vec(0, 0, CameraZ), endCam |-> VAdd(target, Vec(0, 0, StandoffZ)),
     startTgt |-> Vec(0, 0, 0), endTgt |-> target, start |-> perfNow]

\* a flyTo that takes over the start pose of the animation it interrupts
NewAnimFromReplaced(w, g, target, perfNow) ==
    LET flying == { x \in ToSet(w.rafq) \cup ToSet(w.running) : x.kind = "step" /\ x.gen = g }
        old == CHOOSE x \in flying : TRUE
    IN  [call |-> Len(w.selectLog),
         startCam |-> IF flying = {} THEN w.views[g].eye ELSE old.anim.startCam,
         endCam |-> VAdd(target, Vec(0, 0, StandoffZ)),
         startTgt |-> IF flying = {} THEN w.views[g].tgt ELSE old.anim.startTgt,
         endTgt |-> target, start |-> perfNow]

\* the animation flyTo(target) sets up on view g when performance.now() is perfNow
NewAnim(w, g, target, perfNow) ==
    [call |-> Len(w.selectLog),
     startCam |-> w.views[g].eye, endCam |-> VAdd(target, Vec(0, 0, StandoffZ)),
     startTgt |-> w.views[g].tgt, endTgt |-> target, start |-> perfNow]

\* flyTo(target)
FlyTo(w, g, target, perfNow) == Request(w, "step", g, NewAnim(w, g, target, perfNow))

\* a step that asks for one more frame when t is exactly 1
StepAgainAtOne(e) == e <= durationMs

\* if (t < 1) requestAnimationFrame(step)
StepAgain(e) == e < durationMs

\* flyTo.step(now) of the queued callback c
Step(w, c, now) ==
    LET a == c.anim
        kn == EaseNum(now - a.start)
        w0 == [w EXCEPT !.views[c.gen].eye = Lerp(a.startCam, a.endCam, kn),
                        !.views[c.gen].tgt = Lerp(a.startTgt, a.endTgt, kn),
                        !.views[c.gen].writer = a.call,
                        !.views[c.gen].writtenAt = now - a.start,
                        !.views[c.gen].writers = @ \cup {"fly"}]
        w1 == [w0 EXCEPT !.views[c.gen] = ControlsUpdate(@)]
    IN  IF StepAgain(now - a.start) THEN Request(w1, "step", c.gen, a) ELSE w1

\* the farthest intersection instead of the nearest
PickedFarthest(v, hits) == v.papers[hits[Len(hits)] + 1]

\* intersects[0].instanceId resolved through papers; hits is nearest first
Picked(v, hits) == v.papers[hits[1] + 1]

\* a handler that flies back to the origin when the ray meets nothing
OnPointerDownHomeOnMiss(w, g, hits, perfNow) ==
    IF Len(hits) > 0
    THEN LET p == Picked(w.views[g], hits)
             w1 == [w EXCEPT !.selectLog = Append(@,
                       [cb |-> w.views[g].onSelect, paper |-> p, gen |-> g,
                        over |-> StepsOf(w, g), at |-> perfNow,
                        eye |-> w.views[g].eye, tgt |-> w.views[g].tgt])]
         IN  FlyTo(w1, g, p.pos, perfNow)
    ELSE FlyTo(w, g, Vec(0, 0, 0), perfNow)

\* onPointerDown on view g: the ray meets the instances hits, nearest first
OnPointerDown(w, g, hits, perfNow) ==
    IF Len(hits) > 0
    THEN LET p == Picked(w.views[g], hits)
             w1 == [w EXCEPT !.selectLog = Append(@,
                       [cb |-> w.views[g].onSelect, paper |-> p, gen |-> g,
                        over |-> StepsOf(w, g), at |-> perfNow,
                        eye |-> w.views[g].eye, tgt |-> w.views[g].tgt])]
         IN  FlyTo(w1, g, p.pos, perfNow)
    ELSE w

\* lists of up to two distinct instance ids of a batch of n instances
HitLists(n) ==
    {<<>>} \cup { <<i>> : i \in 0..(n - 1) }
           \cup { h \in (0..(n - 1)) \X (0..(n - 1)) : h[1] # h[2] }

MousePoints == {<<1, -1>>}

-----------------------------------------------------------------------------
(* The state machine *)

W == [views |-> views, rafq |-> rafq, running |-> running, nextId |-> nextId,
      selectLog |-> selectLog, err |-> "none", now |-> wall, box |-> size]

Commit(w) ==
    /\ views' = w.views
    /\ rafq' = w.rafq
    /\ running' = w.running
    /\ nextId' = w.nextId
    /\ selectLog' = w.selectLog
    /\ err' = w.err

Props(snap, hl, cb) ==
    [papers |-> snap.papers, edges |-> snap.edges, highlights |-> hl, onSelect |-> cb]

S0 == [papers |-> <<>>, edges |-> <<>>]
S1 == [papers |-> <<N1, N2, N3>>,
       edges |-> <<Edge("n1", "n2", 1, "intra"), Edge("n1", "n4", 0, NoType)>>]
S2 == [papers |-> <<N2, N1>>,
       edges |-> <<Edge("n4", "n2", 3, "bridge"), Edge("n3", "n1", 6, "bridge")>>]

\* the renders the parent takes the view through
PropsOptions ==
    { Props(S0, <<>>, 0), Props(S1, <<>>, 0), Props(S1, <<"n2", "n9">>, 1),
      Props(S2, <<"n2", "n9">>, 1) }

Cur == Len(views)

Alive(g) == g \in 1..Len(views) /\ views[g].cleanups = 0

Idle == running = <<>>

Max(a, b) == IF a > b THEN a ELSE b

MaxDelta == CHOOSE d \in FrameDeltas : \A x \in FrameDeltas : x <= d

Did(op, g, n, call) == last' = [op |-> op, gen |-> g, n |-> n, call |-> call]

\* the react-three-fiber renderer after its first render without a focus target:
\* the camera of <Canvas camera>, the orbit target at the origin, the refs of the
\* CameraAnimator instance empty
FiberInit ==
    [focus |-> Undefined, eye |-> Vec(0, 0, FiberCameraZ), tgt |-> Vec(0, 0, 0),
     animRef |-> 0, startRef |-> Undefined, instance |-> 1, starts |-> 0, nextId |-> 1]

\* App before its first effect: no graph, the greeting in the chat, nothing typed
AppInit ==
    [papers |-> <<>>, edges |-> <<>>, chat |-> <<[role |-> "ai", text |-> <<"welcome">>, cites |-> NoCites]>>,
     input |-> <<>>, loading |-> FALSE, reqs |-> {}, nextReq |-> 1, fetched |-> FALSE]

\* the page before the first run of the effect: props p, a container of size s,
\* t0 ms after the time origin of performance.now()
InitAt(p, s, t0) ==
    /\ props = p
    /\ mountRef = "div"
    /\ views = <<>>
    /\ rafq = <<>>
    /\ running = <<>>
    /\ clock = t0
    /\ wall = t0
    /\ nextId = 1
    /\ selectLog = <<>>
    /\ mouse = <<0, 0>>
    /\ size = s
    /\ events = 0
    /\ err = "none"
    /\ last = [op |-> "init", gen |-> 0, n |-> 0, call |-> 0]
    /\ fiber = FiberInit
    /\ app = AppInit

InitWith(p) == InitAt(p, <<800, 600>>, 0)

\* the props of the first render: no graph yet, or the graph without citations
InitialProps == { Props(S0, <<>>, 0), Props(S1, <<>>, 0) }

Init == \E p \in InitialProps : InitWith(p)

\* the first run of the effect
Mount ==
    /\ views = <<>>
    /\ mountRef = "div"
    /\ Commit(EffectRun(W, props))
    /\ Did("Mount", 1, 0, 0)
    /\ UNCHANGED <<fiber, app, size, props, mountRef, clock, wall, mouse, events>>

\* a render with a changed dependency: cleanup of the old run, then the effect again
Rerender(p) ==
    /\ Idle
    /\ Alive(Cur)
    /\ mountRef = "div"
    /\ events < MaxEvents
    /\ events' = events + 1
    /\ p # props
    /\ props' = p
    /\ Commit(EffectRun(Cleanup(W, Cur, mountRef), p))
    /\ Did("Rerender", Cur + 1, 0, 0)
    /\ UNCHANGED <<fiber, app, size, mountRef, clock, wall, mouse>>

\* the component is removed; ref is what mountRef.current holds when the cleanup runs
Unmount(ref) ==
    /\ Idle
    /\ Alive(Cur)
    /\ mountRef = "div"
    /\ events < MaxEvents
    /\ events' = events + 1
    /\ mountRef' = "null"
    /\ Commit(Cleanup(W, Cur, ref))
    /\ Did("Unmount", Cur, 0, 0)
    /\ UNCHANGED <<fiber, app, size, props, clock, wall, mouse>>

\* the component is removed, first half: the commit detaches the ref of the
\* container; the cleanup of the effect has still to run
Detach ==
    /\ Idle
    /\ Alive(Cur)
    /\ mountRef = "div"
    /\ mountRef' = "null"
    /\ Did("Detach", Cur, 0, 0)
    /\ UNCHANGED <<fiber, app, size, props, views, rafq, running, clock, nextId, selectLog, wall, mouse,
                   events, err>>

\* the component is removed, second half: the cleanup of the effect runs
FlushCleanup ==
    /\ Idle
    /\ Alive(Cur)
    /\ mountRef = "null"
    /\ Commit(Cleanup(W, Cur, mountRef))
    /\ Did("FlushCleanup", Cur, 0, 0)
    /\ UNCHANGED <<fiber, app, size, props, mountRef, clock, wall, mouse, events>>

\* the holder of the cleanup function of view g calls it once more, right after
\* the call before
CleanupAgain(g) ==
    /\ Idle
    /\ g \in 1..Len(views)
    /\ \/ last.op \in {"Unmount", "CleanupAgain"} /\ g = last.gen
       \/ last.op = "Rerender" /\ g = last.gen - 1
    /\ views[g].cleanups \in 1..(MaxCleanupCalls - 1)
    /\ Commit(Cleanup(W, g, mountRef))
    /\ Did("CleanupAgain", g, 0, 0)
    /\ UNCHANGED <<fiber, app, size, props, mountRef, clock, wall, mouse, events>>

\* the display delivers a frame dt ms after the last one
BeginFrame(dt) ==
    /\ Idle
    /\ clock + dt <= MaxClock
    /\ clock' = clock + dt
    /\ wall' = Max(wall, clock + dt)
    /\ running' = rafq
    /\ rafq' = <<>>
    /\ views' = [g \in 1..Len(views) |-> [views[g] EXCEPT !.writers = {}]]
    /\ Did("BeginFrame", 0, 0, 0)
    /\ UNCHANGED <<fiber, app, size, props, mountRef, nextId, selectLog, mouse, events, err>>

\* the frame runs a render-loop callback
RunAnimate ==
    /\ running # <<>>
    /\ Head(running).kind = "animate"
    /\ Commit(Animate([W EXCEPT !.running = Tail(@)], Head(running).gen))
    /\ Did("RunAnimate", Head(running).gen, 0, 0)
    /\ UNCHANGED <<fiber, app, size, props, mountRef, clock, wall, mouse, events>>

\* the frame runs a fly-to callback with the frame's timestamp
RunStep ==
    /\ running # <<>>
    /\ Head(running).kind = "step"
    /\ Commit(Step([W EXCEPT !.running = Tail(@)], Head(running), clock))
    /\ Did("RunStep", Head(running).gen, clock - Head(running).anim.start,
           Head(running).anim.call)
    /\ UNCHANGED <<fiber, app, size, props, mountRef, clock, wall, mouse, events>>

\* mousedown on the render surface at m, lag ms after the last frame
PointerDown(m, hits, lag) ==
    /\ Idle
    /\ Cur >= 1
    /\ "mousedown" \in views[Cur].listeners
    /\ views[Cur].surface = "attached"
    /\ events < MaxEvents
    /\ events' = events + 1
    /\ hits # <<>> => Max(wall, clock + lag) + durationMs + MaxDelta <= MaxClock
    /\ wall' = Max(wall, clock + lag)
    /\ mouse' = m
    /\ Commit(OnPointerDown(W, Cur, hits, wall'))
    /\ Did("PointerDown", Cur, IF hits = <<>> THEN 0 ELSE hits[1] + 1, 0)
    /\ UNCHANGED <<fiber, app, size, props, mountRef, clock>>

RECURSIVE ResizeFrom(_, _, _)
ResizeFrom(w, g, ref) ==
    IF g > Len(w.views) THEN w
    ELSE ResizeFrom(IF "resize" \in w.views[g].listeners THEN OnResize(w, g, ref) ELSE w,
                    g + 1, ref)

\* the window is resized and the container with it: the resize listeners run
Resize(s) ==
    /\ Idle
    /\ views # <<>>
    /\ events < MaxEvents
    /\ events' = events + 1
    /\ s # size
    /\ size' = s
    /\ Commit(ResizeFrom([W EXCEPT !.box = s], 1, mountRef))
    /\ Did("Resize", Cur, 0, 0)
    /\ UNCHANGED <<fiber, app, props, mountRef, clock, wall, mouse>>

\* the user drags on the render surface: the controls take up a rotation
Orbit ==
    /\ Idle
    /\ Cur >= 1
    /\ views[Cur].surface = "attached"
    /\ views[Cur].spin = 0
    /\ events < MaxEvents
    /\ events' = events + 1
    /\ Commit([W EXCEPT !.views[Cur].spin = DragTurns])
    /\ Did("Orbit", Cur, 0, 0)
    /\ UNCHANGED <<fiber, app, size, props, mountRef, clock, wall, mouse>>

Frame == \E dt \in FrameDeltas : BeginFrame(dt)

Next ==
    \/ Mount
    \/ \E p \in PropsOptions : Rerender(p)
    \/ \E ref \in {"div", "null"} : Unmount(ref)
    \/ \E g \in 1..(MaxEvents + 1) : CleanupAgain(g)
    \/ Frame
    \/ RunAnimate
    \/ RunStep
    \/ \E m \in MousePoints : \E hits \in HitLists(IF Cur >= 1 THEN Len(views[Cur].inst) ELSE 0) :
          \E lag \in EventLags : PointerDown(m, hits, lag)

Spec == Init /\ [][Next]_vars

\* the geometry build on every snapshot: mount, draw, remove
InitGeom == \E snap \in AllSnapshots : InitWith(Props(snap, <<>>, 0))

NextGeom ==
    \/ Mount
    \/ \E ref \in {"div", "null"} : Unmount(ref)
    \/ Frame
    \/ RunAnimate

SpecGeom == InitGeom /\ [][NextGeom]_vars

\* the graph of S1 with every node moved and recoloured
S1Moved ==
    [papers |-> <<Paper("n1", Vec(1, 0, 0), "white", 2), Paper("n2", Vec(5, 1, 0), "white", 1),
                  Paper("n3", Vec(0, 5, 1), "white", 0)>>,
     edges |-> S1.edges]

\* the renders of a page whose selection callback keeps its identity
ViewOptions ==
    { Props(S0, <<>>, 0), Props(S1, <<>>, 0), Props(S1, <<"n2", "n9">>, 0),
      Props(S1Moved, <<>>, 0) }

\* how long the page has been open at the first render, ms
TimeOrigins == {0, 20 * 86400000}

\* the life of the view: renders, window resizes, frames, removal
InitView ==
    \E p \in {Props(S0, <<>>, 0), Props(S1, <<"n2", "n9">>, 0)} :
        \E s \in Sizes : \E t0 \in TimeOrigins : InitAt(p, s, t0)

NextView ==
    \/ Mount
    \/ \E p \in ViewOptions : Rerender(p)
    \/ \E s \in Sizes : Resize(s)
    \/ \E ref \in {"div", "null"} : Unmount(ref)
    \/ Frame
    \/ RunAnimate

SpecView == InitView /\ [][NextView]_vars

\* the mounted view under pointer input while the display keeps delivering frames
InitFly == InitWith(Props(S1, <<>>, 0))

NextFly ==
    \/ Mount
    \/ Frame
    \/ RunAnimate
    \/ RunStep
    \/ \E m \in MousePoints : \E hits \in HitLists(IF Cur >= 1 THEN Len(views[Cur].inst) ELSE 0) :
          \E lag \in EventLags : PointerDown(m, hits, lag)

\* a visible page gets a frame whenever one can be delivered, and a delivered
\* frame runs every callback it took
FairSpec ==
    /\ InitFly /\ [][NextFly]_vars
    /\ WF_vars(Frame) /\ WF_vars(RunAnimate) /\ WF_vars(RunStep)

\* the mounted view under pointer input and drags
NextOrbit ==
    \/ Mount
    \/ Frame
    \/ RunAnimate
    \/ RunStep
    \/ Orbit
    \/ \E m \in MousePoints : \E hits \in HitLists(IF Cur >= 1 THEN Len(views[Cur].inst) ELSE 0) :
          \E lag \in EventLags : PointerDown(m, hits, lag)

SpecOrbit == InitFly /\ [][NextOrbit]_vars

\* container sizes with a collapsed side
BoxSizes == {<<0, 0>>, <<800, 0>>, <<0, 600>>, <<800, 600>>, <<400, 600>>}

\* the view in a container that collapses and comes back, up to its removal
InitBox == \E s \in BoxSizes : InitAt(Props(S1, <<>>, 0), s, 0)

NextBox ==
    \/ Mount
    \/ \E s \in BoxSizes : Resize(s)
    \/ Detach
    \/ FlushCleanup
    \/ Frame
    \/ RunAnimate

SpecBox == InitBox /\ [][NextBox]_vars

\* the renders in which the parent passes the cites of the latest answer
HighlightOptions == { Props(S1, <<>>, 0), Props(S1, <<"n2", "n9">>, 0), Props(S1, <<"n3">>, 0) }

\* the mounted view under pointer input while the highlight list changes
NextHighlight ==
    \/ Mount
    \/ \E p \in HighlightOptions : Rerender(p)
    \/ Frame
    \/ RunAnimate
    \/ RunStep
    \/ \E m \in MousePoints : \E hits \in HitLists(IF Cur >= 1 THEN Len(views[Cur].inst) ELSE 0) :
          \E lag \in EventLags : PointerDown(m, hits, lag)

SpecHighlight == InitFly /\ [][NextHighlight]_vars

\* onSelect has called setSelectedPaper with another paper than the one selected,
\* and App has not rendered since
SelectionPending ==
    /\ selectLog # <<>>
    /\ selectLog[Len(selectLog)].cb = props.onSelect
    /\ Len(selectLog) > 1 => selectLog[Len(selectLog)].paper # selectLog[Len(selectLog) - 1].paper

\* App renders after setSelectedPaper: GalaxyArea passes a new arrow function as
\* onSelect (and App a new [] as highlights), so the effect of GalaxyRenderer,
\* which depends on both, runs its cleanup and then runs again
AppRender ==
    /\ Idle
    /\ Alive(Cur)
    /\ mountRef = "div"
    /\ SelectionPending
    /\ props' = [props EXCEPT !.onSelect = @ + 1]
    /\ Commit(EffectRun(Cleanup(W, Cur, mountRef), props'))
    /\ Did("AppRender", Cur + 1, 0, 0)
    /\ UNCHANGED <<fiber, app, size, mountRef, clock, wall, mouse, events>>

\* the view inside the application: picks, and the renders they cause
NextPick ==
    \/ Mount
    \/ Frame
    \/ RunAnimate
    \/ RunStep
    \/ AppRender
    \/ \E m \in MousePoints : \E hits \in HitLists(IF Cur >= 1 THEN Len(views[Cur].inst) ELSE 0) :
          \E lag \in EventLags : PointerDown(m, hits, lag)

SpecPick == InitFly /\ [][NextPick]_vars

-----------------------------------------------------------------------------
(* The react-three-fiber renderer: CameraAnimator *)

FKDen == FiberDuration * FiberDuration

\* ease of CameraAnimator.step for e = now - startTime, as a numerator over FKDen:
\* t = min(1, e / duration); ease = t * (2 - t)
FiberEase(e) == IF e >= FiberDuration THEN FKDen ELSE e * (2 * FiberDuration - e)

FiberLerp(a, b, kn) == [i \in 1..3 |-> a[i] + ((b[i] - a[i]) * kn) \div FKDen]

\* the effect of CameraAnimator, run when performance.now() is now
CameraAnimatorEffect(f, now) ==
    IF f.focus = Undefined THEN f
    ELSE [f EXCEPT !.startRef = [from |-> f.eye,
                                 to |-> VAdd(f.focus.pos, Vec(0, 0, FiberOffsetZ + f.focus.size)),
                                 targetFrom |-> f.tgt, targetTo |-> f.focus.pos,
                                 startTime |-> now],
                   !.animRef = f.nextId,     \* the handle it held is cancelled first
                   !.nextId = @ + 1,
                   !.starts = @ + 1]

\* the cleanup of that effect
CameraAnimatorCleanup(f) == [f EXCEPT !.animRef = 0]

\* GalaxyRenderer renders with focusTarget focus. CameraAnimator is declared in
\* the body of GalaxyRenderer, so this render's CameraAnimator is another function
\* than the last render's: React unmounts the instance of the old one (its cleanup
\* runs) and mounts an instance of the new one, with fresh refs, whose effect runs
GalaxyRendererRender(f, focus, now) ==
    CameraAnimatorEffect([CameraAnimatorCleanup(f) EXCEPT !.focus = focus,
                                                          !.startRef = Undefined,
                                                          !.instance = @ + 1], now)

\* step of CameraAnimator when performance.now() is now
CameraAnimatorStep(f, now) ==
    IF f.startRef = Undefined THEN [f EXCEPT !.animRef = 0]
    ELSE LET r == f.startRef
             e == now - r.startTime
             f1 == [f EXCEPT !.eye = FiberLerp(r.from, r.to, FiberEase(e)),
                             !.tgt = FiberLerp(r.targetFrom, r.targetTo, FiberEase(e))]
         IN  IF e < FiberDuration
             THEN [f1 EXCEPT !.animRef = f.nextId, !.nextId = @ + 1]
             ELSE [f1 EXCEPT !.startRef = Undefined, !.animRef = 0]

\* everything of the imperative renderer
rendererVars == <<props, mountRef, views, rafq, running, nextId, selectLog, wall, mouse, size, err>>

\* the parent renders GalaxyRenderer with focusTarget focus, changed or not
FiberRender(focus) ==
    /\ events < MaxEvents
    /\ events' = events + 1
    /\ fiber' = GalaxyRendererRender(fiber, focus, clock)
    /\ Did("FiberRender", 0, 0, 0)
    /\ UNCHANGED <<rendererVars, clock, app>>

\* the user drags: OrbitControls turns the camera about the orbit target
FiberOrbit ==
    /\ events < MaxEvents
    /\ events' = events + 1
    /\ fiber' = [fiber EXCEPT !.eye = Turn(fiber.eye, fiber.tgt)]
    /\ Did("FiberOrbit", 0, 0, 0)
    /\ UNCHANGED <<rendererVars, clock, app>>

\* a frame: the step CameraAnimator asked for runs, when there is one
FiberFrame(dt) ==
    /\ clock + dt <= MaxClock
    /\ clock' = clock + dt
    /\ fiber' = IF fiber.animRef # 0 THEN CameraAnimatorStep(fiber, clock') ELSE fiber
    /\ Did("FiberFrame", 0, 0, 0)
    /\ UNCHANGED <<rendererVars, events, app>>

FocusTargets == {Undefined, N1, N2}

NextFiber ==
    \/ \E focus \in FocusTargets : FiberRender(focus)
    \/ FiberOrbit
    \/ \E dt \in FrameDeltas : FiberFrame(dt)

SpecFiber == InitFly /\ [][NextFiber]_vars

-----------------------------------------------------------------------------
(* App: graph, chat and requests.  Texts are sequences of characters or tokens;  *)
(* a request in flight is a record in app.reqs until its promise settles.        *)

Blank == " "

RECURSIVE TrimStart(_)
TrimStart(t) == IF t # <<>> /\ Head(t) = Blank THEN TrimStart(Tail(t)) ELSE t

RECURSIVE TrimEnd(_)
TrimEnd(t) == IF t # <<>> /\ t[Len(t)] = Blank THEN TrimEnd(SubSeq(t, 1, Len(t) - 1)) ELSE t

\* String.prototype.trim
Trim(t) == TrimEnd(TrimStart(t))

Msg(role, text, cites) == [role |-> role, text |-> text, cites |-> cites]

\* setChat((prev) => [...prev, m])
Say(a, m) == [a EXCEPT !.chat = Append(@, m)]

\* a call of fetchGraph, uploadPdf or queryLocal: the request is in flight
StartRequest(a, kind, arg) ==
    [a EXCEPT !.reqs = @ \cup {[id |-> a.nextReq, kind |-> kind, arg |-> arg]},
              !.nextReq = @ + 1]

\* the effect of App: the initial fetchGraph
InitialFetch(a) == StartRequest([a EXCEPT !.fetched = TRUE], "initial", <<>>)

\* handleUpload up to its first await; files is e.target.files
HandleUpload(a, files) ==
    IF files = <<>> THEN a
    ELSE StartRequest([a EXCEPT !.loading = TRUE], "upload", <<files[1]>>)

\* handleSend of the earlier App up to its await: if (!input) return
HandleSendUntrimmed(a) ==
    IF a.input = <<>> THEN a
    ELSE StartRequest([Say(a, Msg("user", a.input, NoCites)) EXCEPT !.input = <<>>,
                                                                     !.loading = TRUE],
                      "query", a.input)

\* handleSend up to its await: if (!input.trim()) return
HandleSend(a) ==
    IF Trim(a.input) = <<>> THEN a
    ELSE StartRequest([Say(a, Msg("user", a.input, NoCites)) EXCEPT !.input = <<>>,
                                                                     !.loading = TRUE],
                      "query", a.input)

\* a graph response that replaces the node list only
OnGraphPapersOnly(a, g) == [a EXCEPT !.papers = g.papers]

\* setPapers(g.papers); setEdges(g.edges)
OnGraph(a, g) == [a EXCEPT !.papers = g.papers, !.edges = g.edges]

\* answer.match(/\[CITE:(\w+)\]/g)?.map(...): the ids of the cite marks of an answer
CiteIdOf == ("[CITE:n1]" :> "n1") @@ ("[CITE:n2]" :> "n2")

CiteMarks(answer) ==
    LET marks == SelectSeq(answer, LAMBDA tok : tok \in DOMAIN CiteIdOf)
    IN  [i \in 1..Len(marks) |-> CiteIdOf[marks[i]]]

\* res.answer || 'AI 未返回内容'
AnswerOf(res) == IF res.answer = <<>> THEN <<"no content">> ELSE res.answer

\* res.cites || marks || []
CitesOf(res) == IF res.cites # NoCites THEN res.cites ELSE CiteMarks(AnswerOf(res))

\* the promise of request r resolves with body: the rest of the try block and
\* the finally block of the handler that awaits it
Resolved(a, r, body) ==
    LET a1 == [a EXCEPT !.reqs = @ \ {r}]
    IN  IF r.kind = "initial" THEN OnGraph(a1, body)
        ELSE IF r.kind = "upload" THEN StartRequest(a1, "refetch", r.arg)
        ELSE IF r.kind = "refetch"
             THEN [Say(OnGraph(a1, body), Msg("ai", <<"uploaded">> \o r.arg, NoCites))
                      EXCEPT !.loading = FALSE]
        ELSE [Say(a1, Msg("ai", AnswerOf(body), CitesOf(body))) EXCEPT !.loading = FALSE]

\* the same in the earlier App, whose answer text is res.answer || ''
ResolvedUntrimmed(a, r, body) ==
    IF r.kind = "query"
    THEN [Say([a EXCEPT !.reqs = @ \ {r}], Msg("ai", body.answer, CitesOf(body)))
             EXCEPT !.loading = FALSE]
    ELSE Resolved(a, r, body)

\* the promise of request r rejects: the catch and the finally block
Rejected(a, r) ==
    LET a1 == [a EXCEPT !.reqs = @ \ {r}]
    IN  IF r.kind = "initial" THEN Say(a1, Msg("ai", <<"backend not connected">>, NoCites))
        ELSE IF r.kind \in {"upload", "refetch"}
             THEN [Say(a1, Msg("ai", <<"upload failed">>, NoCites)) EXCEPT !.loading = FALSE]
        ELSE [Say(a1, Msg("ai", <<"query failed">>, NoCites)) EXCEPT !.loading = FALSE]

\* what the user types, what the backend sends
Inputs == {<<>>, <<Blank>>, <<"q", Blank>>}

Graphs == {S1, S2}

Answers ==
    { [answer |-> <<"text">>, cites |-> <<"n2">>],
      [answer |-> <<"text", "[CITE:n1]">>, cites |-> NoCites],
      [answer |-> <<>>, cites |-> NoCites] }

Bodies(kind) ==
    IF kind \in {"initial", "refetch"} THEN Graphs
    ELSE IF kind = "upload" THEN {<<>>}
    ELSE Answers

FetchOnMount ==
    /\ ~app.fetched
    /\ app' = InitialFetch(app)
    /\ Did("FetchOnMount", 0, 0, 0)
    /\ UNCHANGED <<rendererVars, clock, events, fiber>>

\* the file input changes; files is empty when the dialog was cancelled
Upload(files) ==
    /\ app.fetched
    /\ files # <<>> => app.nextReq + 1 <= MaxRequests
    /\ app' = HandleUpload(app, files)
    /\ Did("Upload", 0, Len(files), 0)
    /\ UNCHANGED <<rendererVars, clock, events, fiber>>

\* the user edits the textarea
Type(text) ==
    /\ app.fetched
    /\ text # app.input
    /\ app' = [app EXCEPT !.input = text]
    /\ Did("Type", 0, 0, 0)
    /\ UNCHANGED <<rendererVars, clock, events, fiber>>

\* Enter in the textarea, which is never disabled, or a click on the send button
Send ==
    /\ app.fetched
    /\ app.nextReq <= MaxRequests
    /\ app' = HandleSend(app)
    /\ Did("Send", 0, 0, 0)
    /\ UNCHANGED <<rendererVars, clock, events, fiber>>

\* the same in the earlier App
SendUntrimmed ==
    /\ app.fetched
    /\ app.nextReq <= MaxRequests
    /\ app' = HandleSendUntrimmed(app)
    /\ Did("Send", 0, 0, 0)
    /\ UNCHANGED <<rendererVars, clock, events, fiber>>

\* a request in flight succeeds
Resolve(r, body) ==
    /\ r \in app.reqs
    /\ app' = Resolved(app, r, body)
    /\ Did("Resolve", 0, r.id, 0)
    /\ UNCHANGED <<rendererVars, clock, events, fiber>>

\* a request in flight fails
Reject(r) ==
    /\ r \in app.reqs
    /\ app' = Rejected(app, r)
    /\ Did("Reject", 0, r.id, 0)
    /\ UNCHANGED <<rendererVars, clock, events, fiber>>

Settle ==
    \E r \in app.reqs : (\E body \in Bodies(r.kind) : Resolve(r, body)) \/ Reject(r)

\* a request in flight succeeds in the earlier App
ResolveUntrimmed(r, body) ==
    /\ r \in app.reqs
    /\ app' = ResolvedUntrimmed(app, r, body)
    /\ Did("Resolve", 0, r.id, 0)
    /\ UNCHANGED <<rendererVars, clock, events, fiber>>

SettleUntrimmed ==
    \E r \in app.reqs :
        (\E body \in Bodies(r.kind) : ResolveUntrimmed(r, body)) \/ Reject(r)

NextApp ==
    \/ FetchOnMount
    \/ \E files \in {<<>>, <<"a.pdf">>} : Upload(files)
    \/ \E text \in Inputs : Type(text)
    \/ Send
    \/ Settle

SpecApp == InitFly /\ [][NextApp]_vars

\* the earlier App, whose handleSend does not trim
NextAppUntrimmed ==
    \/ FetchOnMount
    \/ \E files \in {<<>>, <<"a.pdf">>} : Upload(files)
    \/ \E text \in Inputs : Type(text)
    \/ SendUntrimmed
    \/ SettleUntrimmed

SpecAppUntrimmed == InitFly /\ [][NextAppUntrimmed]_vars

-----------------------------------------------------------------------------
\* two GalaxyRenderer elements on one page, told apart by their onSelect
Components == {0, 1}

\* the props a parent gives component c
PropsOf(c) == { Props(S1, <<>>, c), Props(S2, <<"n2">>, c) }

\* the runs of the effect of component c, and the latest of them
ViewsOf(c) == { g \in 1..Len(views) : views[g].onSelect = c }

ViewOf(c) == CHOOSE g \in ViewsOf(c) : \A h \in ViewsOf(c) : h <= g

Mounted(c) == ViewsOf(c) # {} /\ views[ViewOf(c)].cleanups = 0

\* the first run of the effect of component c, in the first commit of the page
MountOf(c) ==
    /\ Idle
    /\ ViewsOf(c) = {}
    /\ clock = 0
    /\ events = 0
    /\ Commit(EffectRun(W, Props(S1, <<>>, c)))
    /\ Did("Mount", Len(views) + 1, 0, 0)
    /\ UNCHANGED <<fiber, app, size, props, mountRef, clock, wall, mouse, events>>

\* a render of component c with changed papers or highlights
RerenderOf(c) ==
    /\ Idle
    /\ Mounted(c)
    /\ events < MaxEvents
    /\ events' = events + 1
    /\ \E p \in PropsOf(c) :
          /\ p.papers # views[ViewOf(c)].papers \/ ToSet(p.highlights) # views[ViewOf(c)].hi
          /\ Commit(EffectRun(Cleanup([W EXCEPT !.box = views[ViewOf(c)].surf], ViewOf(c), "div"), p))
    /\ Did("Rerender", Len(views) + 1, 0, 0)
    /\ UNCHANGED <<fiber, app, size, props, mountRef, clock, wall, mouse>>

\* component c is removed; ref is what its mountRef.current holds in the cleanup
UnmountOf(c, ref) ==
    /\ Idle
    /\ Mounted(c)
    /\ events < MaxEvents
    /\ events' = events + 1
    /\ Commit(Cleanup(W, ViewOf(c), ref))
    /\ Did("Unmount", ViewOf(c), 0, 0)
    /\ UNCHANGED <<fiber, app, size, props, mountRef, clock, wall, mouse>>

\* mousedown on the render surface of component c
PointerDownOn(c, m, hits, lag) ==
    /\ Idle
    /\ ViewsOf(c) # {}
    /\ "mousedown" \in views[ViewOf(c)].listeners
    /\ views[ViewOf(c)].surface = "attached"
    /\ events < MaxEvents
    /\ events' = events + 1
    /\ hits # <<>> => Max(wall, clock + lag) + durationMs + MaxDelta <= MaxClock
    /\ wall' = Max(wall, clock + lag)
    /\ mouse' = m
    /\ Commit(OnPointerDown(W, ViewOf(c), hits, wall'))
    /\ Did("PointerDown", ViewOf(c), IF hits = <<>> THEN 0 ELSE hits[1] + 1, 0)
    /\ UNCHANGED <<fiber, app, size, props, mountRef, clock>>

\* the resize listeners of the page run, view g upward; the container of view c
\* has the size s and every other container the size its view has taken up
RECURSIVE ResizeEach(_, _, _, _)
ResizeEach(w, g, c, s) ==
    IF g > Len(w.views) THEN w
    ELSE LET box == IF g = c THEN s ELSE w.views[g].surf
             w1 == IF "resize" \in w.views[g].listeners
                   THEN OnResize([w EXCEPT !.box = box], g, "div") ELSE w
         IN  ResizeEach(w1, g + 1, c, s)

\* the window is resized and the container of component c with it
ResizeOf(c, s) ==
    /\ Idle
    /\ Mounted(c)
    /\ events < MaxEvents
    /\ events' = events + 1
    /\ s # views[ViewOf(c)].surf
    /\ Commit(ResizeEach(W, 1, ViewOf(c), s))
    /\ Did("Resize", ViewOf(c), 0, 0)
    /\ UNCHANGED <<fiber, app, size, props, mountRef, clock, wall, mouse>>

TwoSizes == {<<800, 600>>, <<400, 600>>}

\* two views on one page
NextTwo ==
    \/ \E c \in Components : MountOf(c)
    \/ \E c \in Components : RerenderOf(c)
    \/ \E c \in Components : \E ref \in {"div", "null"} : UnmountOf(c, ref)
    \/ \E c \in Components : \E s \in TwoSizes : ResizeOf(c, s)
    \/ \E c \in Components : \E m \in MousePoints : \E hits \in {<<>>, <<1>>} :
          PointerDownOn(c, m, hits, 0)
    \/ Frame
    \/ RunAnimate
    \/ RunStep

SpecTwo == InitFly /\ [][NextTwo]_vars

-----------------------------------------------------------------------------
(* Claims *)

Endpoints(papers, e) == e.source \in Ids(papers) /\ e.target \in Ids(papers)

\* the (source, target) pairs of the edges that have both ends in papers, in order
EmittedPairs(papers, edges) ==
    LET kept == SelectSeq(edges, LAMBDA e : Endpoints(papers, e))
    IN  [i \in 1..Len(kept) |-> <<kept[i].source, kept[i].target>>]

PairsOf(segs) == [i \in 1..Len(segs) |-> <<segs[i].source, segs[i].target>>]

\* C1: for every snapshot the edge build emits a segment for exactly the edges whose
\* source and target are ids of the node list, in edge order, and raises no error;
\* the react-three-fiber renderer draws the same edges.
C1_EdgesWithMissingEndSkipped ==
    \A g \in 1..Len(views) :
        /\ PairsOf(views[g].edgeSegs) = EmittedPairs(views[g].papers, views[g].edges)
        /\ \A i \in 1..Len(views[g].edgeSegs) :
              /\ views[g].edgeSegs[i].source \in Ids(views[g].papers)
              /\ views[g].edgeSegs[i].target \in Ids(views[g].papers)
        /\ Len(EdgeConnections(views[g].papers, views[g].edges)) = Len(views[g].edgeSegs)
        /\ last.op = "Mount" => err = "none"

\* a view built from a snapshot with an emitted edge, an edge with a missing target
\* and nothing else
C1_Witness ==
    /\ last.op = "Mount"
    /\ Len(views[1].edges) = 2
    /\ Len(views[1].edgeSegs) = 1
    /\ \E i \in 1..2 : views[1].edges[i].target \notin Ids(views[1].papers)
                       /\ views[1].edges[i].source \in Ids(views[1].papers)

\* C2: once the cleanup of a view has run, its render-loop callback waits for no
\* frame and never runs again, so no draw is issued for it; inside the cleanup the
\* frame request is cancelled before the first resource is released.
C2_NoFrameAfterDispose ==
    /\ \A g \in 1..Len(views) :
          /\ views[g].cleanups > 0 => ~PendingNow(W, "animate", g)
          /\ ~views[g].releasedWhilePending
    /\ last.op = "RunAnimate" => views[last.gen].cleanups = 0

\* a frame is delivered after the view that was drawing has been cleaned up
C2_Witness ==
    /\ views # <<>>
    /\ views[1].cleanups > 0
    /\ views[1].drawn.eye # <<>>
    /\ last.op = "BeginFrame"

\* C3: a second call of the cleanup raises no error and leaves every resource
\* released exactly once.
C3_SecondDisposeNoOp ==
    last.op = "CleanupAgain" =>
        /\ err = "none"
        /\ \A r \in GpuRes : views[last.gen].rel[r] = 1

\* C4: after the cleanup every geometry, material, batch and renderer of the view
\* has been released and the render surface is no child of the container.
C4_AllReleasedAndDetached ==
    \A g \in 1..Len(views) :
        views[g].cleanups > 0 =>
            /\ \A r \in GpuRes : views[g].rel[r] >= 1
            /\ views[g].surface = "detached"

\* C6: at most one fly-to animation of a view waits for a frame at any moment.
C6_OneFlightPerView ==
    \A g \in 1..Len(views) : Cardinality(StepsOf(W, g)) <= 1

\* C7: after the cleanup of a view no fly-to tick of it waits for a frame and none
\* runs.
C7_NoFlyTickAfterDispose ==
    /\ \A g \in 1..Len(views) : views[g].cleanups > 0 => StepsOf(W, g) = {}
    /\ last.op = "RunStep" => views[last.gen].cleanups = 0

\* the end eye of a fly-to toward pos
EndEye(pos) == VAdd(pos, Vec(0, 0, StandoffZ))

CallsOn(g) == { i \in 1..Len(selectLog) : selectLog[i].gen = g }

LatestOn(g) == CHOOSE i \in CallsOn(g) : \A j \in CallsOn(g) : j <= i

AtEndOf(eye, tgt, pos) == eye = EndEye(pos) /\ tgt = pos

\* C5: when the latest focus B of a view was requested while the animation of a
\* focus A on another node was in flight, every draw after the request shows the
\* pose captured at the request or a point of B's interpolation from that pose,
\* never A's end state, and once no tick is pending the camera rests at B's end
\* eye with B's position as orbit target.
C5_InterruptedFocusContinuous ==
    \A g \in 1..Len(views) :
        CallsOn(g) # {} =>
            LET b == LatestOn(g)
                B == selectLog[b]
                v == views[g]
            IN  B.over # {} =>
                  /\ (last.op = "RunAnimate" /\ last.gen = g) =>
                        /\ IF v.writer = b
                           THEN /\ v.drawn.eye = Lerp(B.eye, EndEye(B.paper.pos), EaseNum(v.writtenAt))
                                /\ v.drawn.tgt = Lerp(B.tgt, B.paper.pos, EaseNum(v.writtenAt))
                           ELSE /\ v.drawn.eye = B.eye
                                /\ v.drawn.tgt = B.tgt
                        /\ \A a \in B.over :
                              (/\ selectLog[a].paper.pos # B.paper.pos
                               /\ ~AtEndOf(B.eye, B.tgt, selectLog[a].paper.pos))
                              => ~AtEndOf(v.drawn.eye, v.drawn.tgt, selectLog[a].paper.pos)
                  /\ StepsOf(W, g) = {} => AtEndOf(v.eye, v.tgt, B.paper.pos)

\* focus(B) on another node arrived after A had moved the camera, both animations
\* have ended and a frame has been drawn since
C5_Witness ==
    /\ last.op = "RunAnimate"
    /\ CallsOn(last.gen) # {}
    /\ LET B == selectLog[LatestOn(last.gen)]
       IN  /\ \E a \in B.over : selectLog[a].paper.pos # B.paper.pos
           /\ B.eye # Vec(0, 0, CameraZ)
           /\ StepsOf(W, last.gen) = {}
           /\ AtEndOf(views[last.gen].drawn.eye, views[last.gen].drawn.tgt, B.paper.pos)

\* the fly-to calls whose tick waits for a frame, over all views
InFlight == UNION { StepsOf(W, g) : g \in 1..Len(views) }

\* no later focus on the same view arrived while the animation of call c ran
Uninterrupted(c) ==
    \A b \in 1..Len(selectLog) : selectLog[b].gen = selectLog[c].gen => c \notin selectLog[b].over

\* C8: while frames keep coming every fly-to in flight stops being in flight; the
\* tick with now - start >= duration leaves the eye at the end eye and the orbit
\* target at the focused node's position, schedules no further tick of its
\* animation, and, when the focus was not interrupted, leaves the view with no
\* fly-to tick pending.
C8_FocusSettlesAtEnd ==
    /\ [](last.op = "RunStep" /\ last.n >= durationMs =>
            /\ AtEndOf(views[last.gen].eye, views[last.gen].tgt, selectLog[last.call].paper.pos)
            /\ last.call \notin InFlight
            /\ Uninterrupted(last.call) => StepsOf(W, last.gen) = {})
    /\ \A c \in 1..MaxEvents : (c \in InFlight) ~> (c \notin InFlight)

\* the last tick of an uninterrupted focus on n2 ran exactly at now - start = duration
C8_Witness ==
    /\ last.op = "RunStep"
    /\ last.n = durationMs
    /\ Len(selectLog) = 1
    /\ selectLog[1].paper = N2
    /\ views[1].tgt = Vec(5, 0, 0)
    /\ InFlight = {}

\* C9: a pointer-down whose nearest intersection is instance i calls onSelect once,
\* with the node at slot i of the current node list, and then requests the first
\* tick of a fly-to from the current pose to that node's position.
C9_PickHitSelectsAndFlies ==
    [][(last'.op = "PointerDown" /\ last'.n > 0) =>
          LET p == props.papers[last'.n]
              c == rafq'[Len(rafq')]
          IN  /\ last'.n <= Len(props.papers)
              /\ props.papers = views[Cur].papers
              /\ Len(selectLog') = Len(selectLog) + 1
              /\ SubSeq(selectLog', 1, Len(selectLog)) = selectLog
              /\ selectLog'[Len(selectLog')].paper = p
              /\ selectLog'[Len(selectLog')].cb = props.onSelect
              /\ Len(rafq') = Len(rafq) + 1
              /\ SubSeq(rafq', 1, Len(rafq)) = rafq
              /\ c.kind = "step" /\ c.gen = Cur
              /\ c.anim.call = Len(selectLog')
              /\ c.anim.endTgt = p.pos
              /\ c.anim.endCam = EndEye(p.pos)
              /\ c.anim.startCam = views[Cur].eye
              /\ c.anim.startTgt = views[Cur].tgt
              /\ err' = "none"]_vars

\* a pointer-down has just selected n1, the node of the nearest instance, and the
\* first tick of the fly-to toward the origin waits for the next frame
C9_Witness ==
    /\ last.op = "PointerDown"
    /\ last.n = 1
    /\ selectLog # <<>>
    /\ selectLog[Len(selectLog)].paper = N1
    /\ rafq # <<>>
    /\ rafq[Len(rafq)].kind = "step"
    /\ rafq[Len(rafq)].anim.endTgt = Vec(0, 0, 0)

\* C10: a pointer-down whose ray meets no instance calls onSelect not at all,
\* requests no frame, leaves the camera and every other field of every view as it
\* was and raises no error; only the shared pointer vector is written.
C10_PickMissNoOp ==
    [][(last'.op = "PointerDown" /\ last'.n = 0) =>
          /\ selectLog' = selectLog
          /\ rafq' = rafq
          /\ running' = running
          /\ views' = views
          /\ nextId' = nextId
          /\ props' = props
          /\ mountRef' = mountRef
          /\ err' = "none"]_vars

\* a pointer-down has just missed on a view whose node list is empty
C10_Witness ==
    /\ last.op = "PointerDown"
    /\ last.n = 0
    /\ views[Cur].papers = <<>>
    /\ selectLog = <<>>

\* C11: every frame is drawn by the view of the current props, and the colour of
\* each instance of that view is the highlight colour exactly when the id of its
\* node is in the current highlight list, the node's own colour otherwise; this
\* holds from the draw the update itself issues.
C11_ColoursFollowHighlights ==
    /\ \A g \in 1..Len(views) :
          Alive(g) =>
              /\ g = Cur
              /\ Len(views[g].inst) = Len(props.papers)
              /\ \A i \in 1..Len(props.papers) :
                    views[g].inst[i].color =
                        IF \E k \in 1..Len(props.highlights) :
                               props.highlights[k] = props.papers[i].id
                        THEN "#fbbf24"
                        ELSE props.papers[i].color
    /\ last.op = "RunAnimate" => Alive(last.gen)

\* the highlight list has just been replaced by one that names n2: the new batch
\* shows n2 in the highlight colour and n1 in its own, the old showed n2 in green
C11_Witness ==
    /\ last.op = "Rerender"
    /\ props.highlights = <<"n2", "n9">>
    /\ views[Cur].inst[2].color = "#fbbf24"
    /\ views[Cur].inst[1].color = "red"
    /\ views[Cur - 1].inst # <<>>
    /\ views[Cur - 1].inst[2].color = "green"

\* C12: in every batch written, an instance whose node is not highlighted has
\* scale 1 and every scale lies in [0.65, 1.35], at every timestamp; the batch of
\* the live view gives scale 1 to every node outside the current highlight list.
C12_ScaleOneUnlessHighlighted ==
    \A g \in 1..Len(views) :
        \A i \in 1..Len(views[g].inst) :
            /\ views[g].inst[i].scale >= 650
            /\ views[g].inst[i].scale <= 1350
            /\ views[g].inst[i].id \notin views[g].hi => views[g].inst[i].scale = 1000
            /\ (Alive(g) /\ \A k \in 1..Len(props.highlights) :
                                props.highlights[k] # props.papers[i].id)
               => views[g].inst[i].scale = 1000

\* a frame of a view that highlights n2 only: n2 is off unit scale, n1 and n3 at it
C12_Witness ==
    /\ last.op = "RunAnimate"
    /\ Alive(Cur)
    /\ props.highlights = <<"n2", "n9">>
    /\ views[Cur].inst[2].scale # 1000
    /\ views[Cur].inst[1].scale = 1000
    /\ views[Cur].inst[3].scale = 1000

\* C13: the projection aspect of every view is the width / height ratio of its
\* render surface, and after a mount, a rebuild or a resize handled by the live
\* view both are those of the container's current size.
C13_AspectMatchesSurface ==
    /\ \A g \in 1..Len(views) :
          views[g].aspect[1] * views[g].surf[2] = views[g].aspect[2] * views[g].surf[1]
    /\ (last.op \in {"Mount", "Rerender", "Resize"} /\ Alive(Cur)) =>
          /\ views[Cur].surf = size
          /\ views[Cur].aspect[1] * size[2] = views[Cur].aspect[2] * size[1]

\* the window has just been resized to 400 x 600 under a live view built at
\* another size
C13_Witness ==
    /\ last.op = "Resize"
    /\ Alive(Cur)
    /\ size = <<400, 600>>
    /\ views[Cur].surf = <<400, 600>>
    /\ views[Cur].aspect = <<2, 3>>

\* C14: the batch of every view holds in slot i the i-th node of the node list the
\* view was built from, one slot per node id; only the live view, built from the
\* current node list, listens for pointer-downs, and a pick resolves its slot
\* through that list.
C14_SlotsFollowSnapshot ==
    /\ \A g \in 1..Len(views) :
          /\ Len(views[g].inst) = Len(views[g].papers)
          /\ \A i \in 1..Len(views[g].inst) :
                /\ views[g].inst[i].id = views[g].papers[i].id
                /\ views[g].inst[i].pos = views[g].papers[i].pos
                /\ \A j \in 1..Len(views[g].inst) :
                      views[g].inst[i].id = views[g].inst[j].id => i = j
          /\ "mousedown" \in views[g].listeners =>
                g = Cur /\ Alive(g) /\ views[g].papers = props.papers
    /\ (last.op = "PointerDown" /\ last.n > 0) =>
          /\ last.gen = Cur
          /\ selectLog[Len(selectLog)].gen = Cur
          /\ selectLog[Len(selectLog)].paper.id = views[Cur].inst[last.n].id
          /\ selectLog[Len(selectLog)].paper = props.papers[last.n]

\* after the node list was replaced by one in another order, a pick of slot 0
\* gives n2, the node of that slot now, where the earlier list had n1
C14_Witness ==
    /\ last.op = "PointerDown"
    /\ last.n = 1
    /\ Cur = 2
    /\ views[1].papers # <<>>
    /\ views[1].papers[1] = N1
    /\ selectLog[Len(selectLog)].paper = N2

\* C15: the eye and the orbit target of the view on screen change only in a
\* fly-to tick or while the controls apply a drag; a render with a new node list,
\* highlight list or selection callback leaves both as they were.
C15_CameraOnlyMovedByFlyOrDrag ==
    [][(Cur >= 1 /\ Len(views') >= 1) =>
          ((\/ views'[Len(views')].eye # views[Cur].eye
            \/ views'[Len(views')].tgt # views[Cur].tgt)
           => (last'.op = "RunStep" \/ views[Cur].spin > 0))]_vars

\* C16: within one frame the camera of a view is written by the fly-to or by the
\* controls applying a drag, never by both.
C16_OneCameraWriterPerFrame ==
    \A g \in 1..Len(views) : Cardinality(views[g].writers) <= 1

\* the edges of a view that have both ends in its node list, in order
KeptEdges(v) == SelectSeq(v.edges, LAMBDA e : Endpoints(v.papers, e))

\* how many edges of a view miss an end
SkippedCount(v) == Cardinality({ i \in 1..Len(v.edges) : ~Endpoints(v.papers, v.edges[i]) })

\* the position of the node with this id
PosOf(papers, id) == papers[CHOOSE i \in 1..Len(papers) : papers[i].id = id].pos

\* C17: the edge buffers of a view with m edges of which s miss an end hold
\* 2 (m - s) points and as many colours, three numbers each; the k-th pair of
\* points is the positions of the source and the target of the k-th edge that was
\* not skipped, and the two colours of a pair are equal.
C17_EdgeBufferTwoPointsPerEdge ==
    \A g \in 1..Len(views) :
        LET v == views[g]
            kept == KeptEdges(v)
        IN  /\ Len(kept) = Len(v.edges) - SkippedCount(v)
            /\ Len(v.edgePositions) = 3 * 2 * Len(kept)
            /\ Len(v.edgeColors) = 3 * 2 * Len(kept)
            /\ \A k \in 1..Len(kept) :
                  /\ SubSeq(v.edgePositions, 6 * k - 5, 6 * k - 3) = PosOf(v.papers, kept[k].source)
                  /\ SubSeq(v.edgePositions, 6 * k - 2, 6 * k) = PosOf(v.papers, kept[k].target)
                  /\ SubSeq(v.edgeColors, 6 * k - 5, 6 * k - 3)
                        = SubSeq(v.edgeColors, 6 * k - 2, 6 * k)

\* the view of n1, n2, n3 with the edge n1-n2 and an edge to the missing n4: the
\* buffer is the one segment from the origin to (5, 0, 0)
C17_Witness ==
    /\ last.op = "Mount"
    /\ views[1].papers = <<N1, N2, N3>>
    /\ Len(views[1].edges) = 2
    /\ SkippedCount(views[1]) = 1
    /\ views[1].edgePositions = Vec(0, 0, 0) \o Vec(5, 0, 0)
    /\ Len(views[1].edgeColors) = 6

\* C18: the colour of every emitted edge of weight >= 0 is its base colour times
\* min(1, 0.35 + 0.12 weight), a factor from 0.35 to 1, on both endpoints; the base
\* is the bridge colour exactly for type 'bridge', the default colour for 'intra'
\* and for no type.
C18_EdgeColourPolicy ==
    \A g \in 1..Len(views) :
        LET v == views[g]
            kept == KeptEdges(v)
        IN  \A k \in 1..Len(v.edgeSegs) :
                LET base == v.edgeSegs[k].ca[1]
                    f == v.edgeSegs[k].ca[2]
                IN  /\ k <= Len(kept)
                    /\ kept[k].weight >= 0 =>
                          /\ f >= 35 /\ f <= 100
                          /\ 35 + 12 * kept[k].weight <= 100 => f = 35 + 12 * kept[k].weight
                          /\ 35 + 12 * kept[k].weight > 100 => f = 100
                    /\ (base = "#f472b6") <=> (kept[k].type = "bridge")
                    /\ kept[k].type \in {"intra", NoType} => base = "#60a5fa"
                    /\ \A i \in 1..3 :
                          v.edgeColors[6 * k - 6 + i]
                              = (IF kept[k].type = "bridge" THEN <<244, 114, 182>>
                                 ELSE <<96, 165, 250>>)[i] * f

\* a view with a bridge of weight 6, drawn at full brightness, and an edge of
\* weight 0 without a type, drawn in the default colour at 0.35
C18_Witness ==
    /\ last.op = "Mount"
    /\ Len(views[1].edgeSegs) = 2
    /\ views[1].edgeSegs[1].ca = <<"#f472b6", 100>>
    /\ views[1].edgeSegs[2].ca = <<"#60a5fa", 35>>
    /\ views[1].edges[2].type = NoType

EmptyGraph(v) == v.papers = <<>> /\ v.edges = <<>>

\* C19: a view of no nodes and no edges has empty edge buffers and a batch of no
\* instances; its mount, each of its ticks, a resize under it and its cleanup
\* raise no error, and each tick draws and asks for the next frame.
C19_EmptyGraphRenders ==
    /\ \A g \in 1..Len(views) :
          EmptyGraph(views[g]) =>
              /\ views[g].edgePositions = <<>>
              /\ views[g].edgeColors = <<>>
              /\ views[g].inst = <<>>
              /\ views[g].drawn.eye # <<>>
    /\ (/\ last.op \in {"Mount", "Rerender", "RunAnimate", "Resize", "Unmount"}
        /\ EmptyGraph(views[last.gen])) => err = "none"
    /\ (last.op = "Rerender" /\ EmptyGraph(views[last.gen - 1])) => err = "none"
    /\ (last.op = "RunAnimate" /\ EmptyGraph(views[last.gen])) =>
          /\ views[last.gen].drawn.at = wall
          /\ views[last.gen].drawn.live
          /\ Pending(W, "animate", last.gen)

\* a tick of the first view, which shows the empty graph and has been resized
C19_Witness ==
    /\ last.op = "RunAnimate"
    /\ Cur = 1
    /\ Alive(1)
    /\ EmptyGraph(views[1])
    /\ events >= 1
    /\ views[1].surf = size
    /\ views[1].drawn.at > 0

\* props q differ from props p in the highlight list and in colours and positions
\* of nodes only
OnlyRefreshes(p, q) ==
    /\ q.edges = p.edges
    /\ q.onSelect = p.onSelect
    /\ Len(q.papers) = Len(p.papers)
    /\ \A i \in 1..Len(p.papers) : q.papers[i].id = p.papers[i].id

\* C20: a render that changes only the highlight list or colours and positions of
\* nodes, with the counts of nodes and edges as before, keeps the view it has:
\* none of its resources is released and no new set of resources is created.
C20_RefreshKeepsResources ==
    [][(last'.op = "Rerender" /\ OnlyRefreshes(props, props')) =>
          /\ Len(views') = Len(views)
          /\ \A r \in GpuRes : views'[Cur].rel[r] = 0]_vars

\* the runs of the effect that hold a resource not yet released
LiveGenerations == { g \in 1..Len(views) : \E r \in GpuRes : views[g].rel[r] = 0 }

\* C21: at most one run of the effect holds unreleased resources, and it is the
\* latest one: a rebuild has released every resource of the run before it when it
\* creates its own, and after the unmount no run holds a resource.
C21_OneLiveGeneration ==
    /\ Cardinality(LiveGenerations) <= 1
    /\ LiveGenerations \subseteq {Cur}
    /\ \A g \in 1..Len(views) :
          views[g].cleanups > 0 => \A r \in GpuRes : views[g].rel[r] >= 1
    /\ (mountRef = "null" /\ last.op = "Unmount") => LiveGenerations = {}

\* the view was rebuilt once and then removed: both runs have released everything
C21_Witness ==
    /\ last.op = "Unmount"
    /\ Len(views) = 2
    /\ LiveGenerations = {}
    /\ \A r \in GpuRes : views[1].rel[r] = 1 /\ views[2].rel[r] = 1

\* C22: every draw reads a batch whose slots have all been written for the
\* snapshot of the drawing view, is made by the view of the current props with
\* none of its resources released; the only draw of a commit that tears down and
\* rebuilds is the one the new run of the effect makes as its last statement.
C22_DrawReadsBuiltBatch ==
    /\ \A g \in 1..Len(views) :
          views[g].drawn.eye # <<>> =>
              /\ views[g].drawn.live
              /\ views[g].drawn.slots = Len(views[g].papers)
              /\ Len(views[g].inst) = Len(views[g].papers)
    /\ (last.op \in {"RunAnimate", "Mount", "Rerender"} /\ err = "none") =>
          /\ last.gen = Cur
          /\ views[Cur].drawn.at = wall
          /\ \A r \in GpuRes : views[Cur].rel[r] = 0

\* the first frame of a rebuilt view of three nodes, the view before it drawn and
\* released
C22_Witness ==
    /\ last.op = "RunAnimate"
    /\ Cur = 2
    /\ views[1].drawn.eye # <<>>
    /\ views[1].cleanups = 1
    /\ views[2].drawn.at = wall
    /\ views[2].drawn.at > views[1].drawn.at
    /\ views[2].drawn.slots = 3

\* the animate callbacks of view g that wait for a frame or are about to run
LoopCallbacks(g) ==
    Cardinality({ i \in 1..Len(rafq) : rafq[i].kind = "animate" /\ rafq[i].gen = g })
    + Cardinality({ i \in 1..Len(running) : running[i].kind = "animate" /\ running[i].gen = g })

\* C23: the mounted view has exactly one render-loop callback pending, and a view
\* whose cleanup has run has none.
C23_OneLoopCallback ==
    \A g \in 1..Len(views) :
        LoopCallbacks(g) = (IF views[g].cleanups = 0 /\ err = "none" THEN 1 ELSE 0)

\* a frame of the rebuilt view has just run: its callback waits again, the
\* replaced view has none
C23_Witness ==
    /\ last.op = "RunAnimate"
    /\ Cur = 2
    /\ views[1].cleanups = 1
    /\ LoopCallbacks(1) = 0
    /\ LoopCallbacks(2) = 1
    /\ rafq[Len(rafq)].id = views[2].raf

\* the fly-to callbacks of view g that have still to run, in this frame or the next
StepCallbacks(g) ==
    { c \in ToSet(rafq) \cup ToSet(running) : c.kind = "step" /\ c.gen = g }

\* C24: a tick of the render loop advances the animation before it draws: the
\* frame drawn while an animation is in flight shows the camera where that
\* animation puts it at the timestamp of the frame, and one callback advances it.
C24_TickStepsThenDraws ==
    (last.op = "RunAnimate" /\ StepCallbacks(last.gen) # {}) =>
        /\ Cardinality(StepCallbacks(last.gen)) = 1
        /\ \A c \in StepCallbacks(last.gen) :
              /\ views[last.gen].drawn.eye =
                     Lerp(c.anim.startCam, c.anim.endCam, EaseNum(clock - c.anim.start))
              /\ views[last.gen].drawn.tgt =
                     Lerp(c.anim.startTgt, c.anim.endTgt, EaseNum(clock - c.anim.start))

\* C25: the animation a focus request sets up starts from the eye and the orbit
\* target the camera has when the request arrives; when an animation in flight has
\* already moved the camera, the new one does not start from that animation's
\* start pose, and the animation in flight keeps its own.
C25_StartIsPoseAtRequest ==
    [][(last'.op = "PointerDown" /\ last'.n > 0) =>
          LET new == rafq'[Len(rafq')].anim
          IN  /\ new.startCam = views[Cur].eye
              /\ new.startTgt = views[Cur].tgt
              /\ new.start = wall'
              /\ \A c \in StepCallbacks(Cur) :
                    /\ c \in ToSet(rafq')
                    /\ c.anim.startCam # views[Cur].eye => new.startCam # c.anim.startCam
                    /\ c.anim.startTgt # views[Cur].tgt => new.startTgt # c.anim.startTgt]_vars

\* a second focus request has arrived while the first animation, begun at the home
\* pose, had moved the camera: two animations wait with different start poses
C25_Witness ==
    /\ last.op = "PointerDown"
    /\ last.n > 0
    /\ Cardinality(StepCallbacks(Cur)) = 2
    /\ \E c \in StepCallbacks(Cur) :
          /\ c.anim.startCam = Vec(0, 0, CameraZ)
          /\ rafq[Len(rafq)].anim.startCam # c.anim.startCam
          /\ rafq[Len(rafq)].anim.startCam = views[Cur].eye

\* C26: the animation of a focus on a node ends with the orbit target at the
\* node's position and the eye at that position plus the standoff along z
\* lengthened by the node's size, and runs for the fixed duration: its last tick
\* is the first one at or after start + durationMs.
C26_EndEyeStandsOffBySize ==
    /\ \A c \in ToSet(rafq) \cup ToSet(running) :
          c.kind = "step" =>
              LET p == selectLog[c.anim.call].paper
              IN  /\ c.anim.endTgt = p.pos
                  /\ c.anim.endCam = VAdd(p.pos, Vec(0, 0, StandoffZ + p.size))
    /\ (last.op = "RunStep" /\ last.call \notin InFlight) => last.n >= durationMs

\* now - start held between 0 and the duration
Clamped(e) == IF e < 0 THEN 0 ELSE IF e > durationMs THEN durationMs ELSE e

\* C27: every fly-to tick leaves the eye and the orbit target where the eased
\* progress, clamped to [0, 1], puts them between the poses recorded at the
\* request: a tick whose timestamp is earlier than the recorded start leaves the
\* camera at the start pose, and no tick puts it outside the segment.
C27_TickProgressClamped ==
    (last.op = "RunStep" /\ Cardinality(CallsOn(last.gen)) = 1) =>
        LET B == selectLog[last.call]
            v == views[last.gen]
            kn == EaseNum(Clamped(last.n))
        IN  /\ kn \in 0..KDen
            /\ v.eye = Lerp(B.eye, EndEye(B.paper.pos), kn)
            /\ v.tgt = Lerp(B.tgt, B.paper.pos, kn)
            /\ last.n < 0 => v.eye = B.eye /\ v.tgt = B.tgt

\* C28: a render that changes only the highlight list leaves the node list, the
\* slot of every node, the position written to every slot and the edge buffers
\* as they were, and the frame drawn after it is taken from the camera the change
\* found: the frames before and after differ in instance colours and scales only.
C28_HighlightChangeOnlyRecolours ==
    [][(/\ last'.op = "Rerender"
        /\ props'.papers = props.papers
        /\ props'.edges = props.edges
        /\ props'.highlights # props.highlights) =>
          LET v == views[Cur]
              n == views'[Len(views')]
          IN  /\ n.papers = v.papers
              /\ Len(n.inst) = Len(v.inst)
              /\ \A i \in 1..Len(v.inst) :
                    /\ n.inst[i].id = v.inst[i].id
                    /\ n.inst[i].pos = v.inst[i].pos
              /\ n.edgeSegs = v.edgeSegs
              /\ n.edgePositions = v.edgePositions
              /\ n.edgeColors = v.edgeColors
              /\ n.drawn.eye = v.eye
              /\ n.drawn.tgt = v.tgt]_vars

\* C29: onSelect is called only by a pointer-down on the view of the current
\* props whose cleanup has not run, once, with the callback of the current props
\* and with an element of the current node list: never with the value of a slot
\* the list does not have, and never with a node or through a view of a snapshot
\* that has been replaced or removed.
C29_SelectsNodeOfMountedSnapshot ==
    [][selectLog' # selectLog =>
          LET s == selectLog'[Len(selectLog')]
          IN  /\ last'.op = "PointerDown"
              /\ Len(selectLog') = Len(selectLog) + 1
              /\ SubSeq(selectLog', 1, Len(selectLog)) = selectLog
              /\ s.gen = Cur
              /\ views[Cur].cleanups = 0
              /\ mountRef = "div"
              /\ s.paper # Undefined
              /\ s.paper \in ToSet(props.papers)
              /\ s.cb = props.onSelect
              /\ \A g \in 1..(Cur - 1) : views'[g] = views[g]]_vars

\* after the snapshot n1,n2,n3 was replaced by n2,n1, a pointer-down on the
\* second slot has selected n1, which the replaced snapshot had in its first slot
C29_Witness ==
    /\ last.op = "PointerDown"
    /\ last.n = 2
    /\ Cur = 2
    /\ views[1].papers = <<N1, N2, N3>>
    /\ views[2].papers = <<N2, N1>>
    /\ selectLog[Len(selectLog)].paper = N1
    /\ selectLog[Len(selectLog)].gen = 2

\* C30: no handler raises an error, whatever the size of the container; a mount
\* or a resize with the container present, collapsed or not, leaves the surface
\* and the aspect at the container's size, the resize listener in place and the
\* render loop running; a resize delivered after the container reference is
\* gone changes no view and requests no frame.
C30_ZeroSizeAndLateResizeHarmless ==
    [][/\ err' = "none"
       /\ (last'.op \in {"Mount", "Resize"} /\ mountRef' = "div") =>
             LET n == views'[Len(views')]
             IN  /\ n.surf = size'
                 /\ n.aspect = Ratio(size')
                 /\ "resize" \in n.listeners
                 /\ n.drawn.live
                 /\ \E i \in 1..Len(rafq') : rafq'[i].id = n.raf /\ rafq'[i].kind = "animate"
       /\ (last'.op = "Resize" /\ mountRef = "null") =>
             /\ size' # size
             /\ views' = views
             /\ rafq' = rafq
             /\ nextId' = nextId]_vars

\* a view that took up a container 800 wide and 0 high, with an infinite aspect,
\* has lost its container reference before its cleanup ran: the resize to
\* 400 x 600 that follows leaves it as it was
C30_Witness ==
    /\ last.op = "Resize"
    /\ mountRef = "null"
    /\ Len(views) = 1
    /\ views[1].cleanups = 0
    /\ "resize" \in views[1].listeners
    /\ size = <<400, 600>>
    /\ views[1].surf = <<800, 0>>
    /\ views[1].aspect = <<1, 0>>

\* the callbacks of view g that wait for a frame or are about to run
CallbacksOf(q, r, g) == { x \in ToSet(q) \cup ToSet(r) : x.gen = g }

\* C31: with two views on one page, a mount, rebuild, dispose, resize, pick,
\* frame callback or fly-to tick of one component leaves the latest view of the
\* other component as it was, camera, resources and listeners included, and leaves
\* that view's pending callbacks pending.
C31_ViewsShareNothing ==
    [][(last'.op # "BeginFrame" /\ last'.gen \in 1..Len(views')) =>
          \A c \in Components :
              (ViewsOf(c) # {} /\ views'[last'.gen].onSelect # c) =>
                  /\ views'[ViewOf(c)] = views[ViewOf(c)]
                  /\ CallbacksOf(rafq', running', ViewOf(c)) = CallbacksOf(rafq, running, ViewOf(c))]_vars

\* one of two mounted views has been disposed, the other has drawn a frame since
\* and its render loop waits for the next
C31_Witness ==
    /\ last.op = "RunAnimate"
    /\ \E c \in Components : \E d \in Components :
          /\ c # d
          /\ ViewsOf(c) # {} /\ ViewsOf(d) # {}
          /\ views[ViewOf(c)].cleanups = 1
          /\ Mounted(d)
          /\ last.gen = ViewOf(d)
          /\ ViewOf(d) < ViewOf(c)
          /\ views[ViewOf(d)].drawn.at = wall
          /\ \E x \in ToSet(rafq) : x.id = views[ViewOf(d)].raf

\* the views whose cleanup has not run
LiveViews == { g \in 1..Len(views) : views[g].cleanups = 0 }

\* the listeners registered by all views, as pairs of view and event
Registered == { <<g, e>> \in (1..Len(views)) \X {"mousedown", "resize"} : e \in views[g].listeners }

\* C32: every view whose cleanup has not run has one mousedown and one resize
\* listener and every other view has none, so there are as many listeners of
\* either kind as live views; a resize or a pointer-down changes no view whose
\* cleanup has run, and onSelect is called through a live view only.
C32_ListenersFollowLiveViews ==
    /\ [](/\ \A g \in 1..Len(views) :
               views[g].listeners = (IF g \in LiveViews THEN {"mousedown", "resize"} ELSE {})
          /\ Cardinality(Registered) = 2 * Cardinality(LiveViews))
    /\ [][/\ (last'.op \in {"Resize", "PointerDown"}) =>
                \A g \in 1..Len(views) : (g \notin LiveViews => views'[g] = views[g])
           /\ (selectLog' # selectLog) => (selectLog'[Len(selectLog')].gen \in LiveViews)]_vars

\* a component was rebuilt and its container then resized: the view of the first
\* run has no listener and kept its size, the view of the second took the new one
C32_Witness ==
    /\ last.op = "Resize"
    /\ \E c \in Components :
          /\ Cardinality(ViewsOf(c)) = 2
          /\ Mounted(c)
          /\ \E g \in ViewsOf(c) :
                /\ g # ViewOf(c)
                /\ views[g].listeners = {}
                /\ views[g].surf # views[ViewOf(c)].surf

\* C33: in the application a view that has handled a pick is not disposed by the
\* render the pick causes: every view onSelect was called through is still the
\* one on screen, and every fly-to tick that waits moves the camera of that view.
C33_PickKeepsItsView ==
    /\ \A i \in 1..Len(selectLog) :
          selectLog[i].gen = Cur /\ views[selectLog[i].gen].cleanups = 0
    /\ \A c \in ToSet(rafq) \cup ToSet(running) :
          c.kind = "step" => (c.gen = Cur /\ views[c.gen].cleanups = 0)

\* C34: in the renderer driven by focusTarget an animation is started only by a
\* render whose focus target differs from the one before and is a node; a render
\* with the same focus target leaves the animation that runs, the handle of its
\* next step and the camera as they were.
C34_FocusStartsOnlyOnChange ==
    [][/\ fiber'.starts # fiber.starts =>
             (fiber'.focus # fiber.focus /\ fiber'.focus # Undefined)
       /\ (last'.op = "FiberRender" /\ fiber'.focus = fiber.focus) =>
             /\ fiber'.animRef = fiber.animRef
             /\ fiber'.startRef = fiber.startRef
             /\ fiber'.eye = fiber.eye
             /\ fiber'.tgt = fiber.tgt]_vars

\* the requests of an upload or a query that are in flight
InFlightWork == { r \in app.reqs : r.kind \in {"upload", "refetch", "query"} }

\* C35: loading is true exactly while an upload or a query is in flight, also
\* when several overlap.
C35_LoadingWhileInFlight == app.loading <=> (InFlightWork # {})

\* the request a Resolve or Reject step settled
SettledRequest == CHOOSE r \in app.reqs : r.id = last'.n

\* C36: the chat log is append-only: a step leaves it alone or appends one
\* message; an accepted send appends the user's message at once, a send with
\* blank input changes no state, and the answer or the failure of a query
\* appends exactly one AI message and ends the request.
C36_ChatAppendOnly ==
    [][ /\ \/ app'.chat = app.chat
           \/ \E m \in {app'.chat[Len(app'.chat)]} : app'.chat = Append(app.chat, m)
        /\ (last'.op = "Send" /\ Trim(app.input) = <<>>) => (app' = app)
        /\ (last'.op = "Send" /\ Trim(app.input) # <<>>) =>
               (app'.chat = Append(app.chat, Msg("user", app.input, NoCites)))
        /\ (last'.op \in {"Resolve", "Reject"} /\ SettledRequest.kind = "query") =>
               (/\ Len(app'.chat) = Len(app.chat) + 1
                /\ app'.chat[Len(app'.chat)].role = "ai"
                /\ SubSeq(app'.chat, 1, Len(app.chat)) = app.chat
                /\ SettledRequest \notin app'.reqs)
      ]_vars

\* the lists the application holds both come from one graph, or are still empty
ListsOfOneGraph ==
    \/ app.papers = <<>> /\ app.edges = <<>>
    \/ \E g \in Graphs : app.papers = g.papers /\ app.edges = g.edges

\* C37: the node list and the edge list are replaced together from one graph
\* response; a failed initial fetch, upload or re-fetch leaves both unchanged
\* and appends exactly one error message, and an upload clears the loading
\* flag whether it ends in success or in failure.
C37_ListsReplacedTogether ==
    /\ []ListsOfOneGraph
    /\ [][ /\ (app'.papers # app.papers \/ app'.edges # app.edges) =>
                 (/\ last'.op = "Resolve"
                  /\ SettledRequest.kind \in {"initial", "refetch"}
                  /\ \E g \in Graphs : app'.papers = g.papers /\ app'.edges = g.edges)
           /\ (last'.op = "Reject" /\ SettledRequest.kind \in {"initial", "upload", "refetch"}) =>
                 (/\ app'.papers = app.papers
                  /\ app'.edges = app.edges
                  /\ Len(app'.chat) = Len(app.chat) + 1
                  /\ SubSeq(app'.chat, 1, Len(app.chat)) = app.chat
                  /\ app'.chat[Len(app'.chat)].role = "ai"
                  /\ app'.chat[Len(app'.chat)].text
                        \in {<<"backend not connected">>, <<"upload failed">>}
                  /\ (SettledRequest.kind = "initial" \/ ~app'.loading))
           /\ (last'.op = "Resolve" /\ SettledRequest.kind = "upload") =>
                 (app'.papers = app.papers /\ app'.edges = app.edges /\ app'.chat = app.chat)
           /\ (last'.op = "Resolve" /\ SettledRequest.kind = "refetch") => (~app'.loading)
        ]_vars

\* C37 witness: after a graph was loaded an upload or its re-fetch failed; the
\* lists are still those of that graph, the last message is the failure
\* notice, nothing is in flight and loading is cleared.
C37_Witness ==
    /\ last.op = "Reject"
    /\ app.papers = S1.papers /\ app.edges = S1.edges
    /\ app.chat[Len(app.chat)].text = <<"upload failed">>
    /\ app.reqs = {}
    /\ ~app.loading

====
